---- MODULE Spec2Model ----
(***************************************************************************)
(* Model of srt_stress_analysis of "SRT PnL Stress Analysis v2.py": the    *)
(* quarterly amortisation waterfall of a first-loss tranche, run for a     *)
(* list of stress scenarios.                                               *)
(*                                                                         *)
(* Numbers.  The program computes in Python floats.  The model computes in *)
(* exact rationals <<n, d>> (d > 0, lowest terms).  Every input the model  *)
(* draws is a dyadic rational of small magnitude, and the notional is a    *)
(* power of two or zero, so every float operation of the program on these  *)
(* inputs is exact and the two computations agree value for value.         *)
(*                                                                         *)
(* Rounding.  A float has a 53-bit significand, so a sum of magnitude      *)
(* about 2^54 is rounded to a multiple of 2 or 4.  Such a float is written *)
(* <<n, 1, h>> for h * 2^54 + n (h = 1 or -1, n a small integer), and +    *)
(* and - round it as the float operation does.  SpecLargePrice runs the    *)
(* program with cln_price = 2^54, where pnl (line 105) and discounted_pnl  *)
(* (line 110) are such floats; under Spec no such value arises.            *)
(***************************************************************************)
EXTENDS Integers, Sequences, FiniteSets, TLC

(***************************************************************************)
(* Exact rational arithmetic (the program's float +, -, *, /, comparisons) *)
(***************************************************************************)
Abs(n) == IF n < 0 THEN -n ELSE n

RECURSIVE GCD(_, _)
GCD(a, b) == IF b = 0 THEN a ELSE GCD(b, a % b)

\* the rational n/d in lowest terms with a positive denominator (d # 0)
R(n, d) ==
    LET g == GCD(Abs(n), Abs(d))
        s == IF d < 0 THEN -1 ELSE 1
    IN  <<s * (n \div g), s * (d \div g)>>

Zero == <<0, 1>>
One == <<1, 1>>

\* a float of magnitude about 2^54: <<n, 1, h>> is h * 2^54 + n
IsWide(x) == Len(x) = 3
Narrow(x) == <<x[1], x[2]>>

RNeg(x) == IF IsWide(x) THEN <<-x[1], x[2], -x[3]>> ELSE <<-x[1], x[2]>>

\* the exact sum of two rationals
QAdd(x, y) ==
    LET g == GCD(x[2], y[2])
        l == (x[2] \div g) * y[2]
    IN  R(x[1] * (l \div x[2]) + y[1] * (l \div y[2]), l)

\* the multiple of m nearest to the rational x; halfway between two, the one
\* that is a multiple of 2m (round-half-to-even on the significand)
NearestMultiple(x, m) ==
    LET k == x[1] \div (x[2] * m)
        rest == x[1] - k * x[2] * m
    IN  IF 2 * rest < x[2] * m THEN k * m
        ELSE IF 2 * rest > x[2] * m THEN (k + 1) * m
        ELSE IF k % 2 = 0 THEN k * m ELSE (k + 1) * m

\* the float nearest to -2^54 + x, as its offset from -2^54 (x small): the
\* floats of (2^53, 2^54] are 2 apart, those of [2^54, 2^55) are 4 apart
RoundBelow(x) ==
    IF x[1] >= 0 THEN NearestMultiple(x, 2) ELSE NearestMultiple(x, 4)

\* the float nearest to h * 2^54 + x
RoundWide(x, h) ==
    IF h < 0 THEN <<RoundBelow(x), 1, h>>
    ELSE <<-RoundBelow(<<-x[1], x[2]>>), 1, h>>

\* float +.  Exact on the small dyadic values; a sum about 2^54 is rounded.
\* Two floats about 2^54 meet only with opposite signs (a difference of two
\* of them), and that difference is exact.
RAdd(x, y) ==
    IF ~IsWide(x) /\ ~IsWide(y) THEN QAdd(x, y)
    ELSE IF ~IsWide(y) THEN RoundWide(QAdd(Narrow(x), y), x[3])
    ELSE IF ~IsWide(x) THEN RoundWide(QAdd(x, Narrow(y)), y[3])
    ELSE QAdd(Narrow(x), Narrow(y))

RSub(x, y) == RAdd(x, RNeg(y))

RMul(x, y) ==
    LET g1 == GCD(Abs(x[1]), y[2])
        g2 == GCD(Abs(y[1]), x[2])
    IN  <<(x[1] \div g1) * (y[1] \div g2), (x[2] \div g2) * (y[2] \div g1)>>

\* x / y for y # 0; the program's division raises ZeroDivisionError at y = 0
RDiv(x, y) ==
    RMul(x, IF y[1] < 0 THEN <<-y[2], -y[1]>> ELSE <<y[2], y[1]>>)

RLe(x, y) == RSub(x, y)[1] <= 0
RLt(x, y) == RSub(x, y)[1] < 0

(***************************************************************************)
(* Program constants (lines 59-65)                                         *)
(***************************************************************************)
maturity == 8
replenishment_period == 3
quarters_per_year == 4
total_quarters == maturity * quarters_per_year
base_trigger_time == 4

Q == <<quarters_per_year, 1>>

(***************************************************************************)
(* Bounds and input sets                                                   *)
(***************************************************************************)
MaxScenarios == 2

TrancheSizes == {R(8, 1)}
NotionalAmounts == {Zero, R(16, 1)}
CouponRates == {R(1, 2)}
AnnualLossRates == {R(1, 8)}
ClnPrices == {R(4, 1)}
\* 2^54
LargeClnPrices == {<<0, 1, 1>>}
AmortisationRates == {Zero, R(2, 1), R(4, 1)}
RiskFreeRateLists == {<<Zero>>, <<R(4, 1), Zero>>, <<Zero, R(-8, 1)>>}
StressMultipliers == {R(-1, 1), One, R(5, 2)}
TriggerYears == 0..(maturity + 1)

\* trigger lists of length n: consecutive years from any first year, as in
\* the example usage (line 150: [4, 5, 6, 7])
TriggerLists(n) ==
    {[j \in 1..n |-> t + j - 1] :
        t \in {u \in TriggerYears : u + n - 1 \in TriggerYears}}

StressLists(n) == [1..n -> StressMultipliers]

VARIABLES
    \* arguments of srt_stress_analysis
    tranche_size, notional_amount, coupon_rate, annual_loss_rate,
    stress_scenarios, trigger_timings, cln_price, risk_free_rates,
    amortisation_rate,
    \* control: position in the loops, raised exception, returned value
    pc, i, year, quarter, fault, returned,
    \* locals of the scenario loop
    trigger_time, remaining_notional, tranche_exposure, pnl, discounted_pnl,
    compounded_cashflows, sequential_mode,
    \* locals of the period loop
    annual_losses, principal_payment, quarterly_cashflow, amortisation_type,
    \* outputs
    results, pnl_over_time,
    \* locals of v1 only
    annual_cashflow, base_pnl_over_time

args == <<tranche_size, notional_amount, coupon_rate, annual_loss_rate,
          stress_scenarios, trigger_timings, cln_price, risk_free_rates,
          amortisation_rate>>
scenario_locals == <<trigger_time, remaining_notional, tranche_exposure, pnl,
                     discounted_pnl, compounded_cashflows, sequential_mode>>
period_locals == <<annual_losses, principal_payment, quarterly_cashflow,
                   amortisation_type>>
v1_locals == <<annual_cashflow, base_pnl_over_time>>
vars == <<args, pc, i, year, quarter, fault, returned, scenario_locals,
          period_locals, results, pnl_over_time, v1_locals>>

(***************************************************************************)
(* The period computation, line by line                                    *)
(***************************************************************************)
\* line 79
QuarterIndex(y, q) == (y - 1) * quarters_per_year + (q - 1)

\* mutant of AnnualLosses: the yearly losses of v1, not divided by the quarters
AnnualLossesPerYear(rn, stress) == RMul(RMul(rn, annual_loss_rate), stress)

\* line 80
AnnualLosses(rn, stress) ==
    RDiv(RMul(RMul(rn, annual_loss_rate), stress), Q)

\* mutant of SequentialMode: the regime re-derived from the year each period
SequentialModeNoLatch(y, trig, seq) == y = trig

\* mutant of SequentialMode: the latch set one year late
SequentialModeLate(y, trig, seq) == IF y > trig THEN TRUE ELSE seq

\* mutant of SequentialMode: the latch set in any year from the trigger year on
SequentialModeAtOrAfter(y, trig, seq) == IF y >= trig THEN TRUE ELSE seq

\* lines 88-89: the latch
SequentialMode(y, trig, seq) == IF y = trig THEN TRUE ELSE seq

\* mutant of AmortisationType: the replenishment test off by one year
AmortisationTypeLongReplenishment(y, seq) ==
    IF y <= replenishment_period + 1 THEN "Replenishment"
    ELSE IF seq THEN "Sequential" ELSE "Pro-rata"

\* lines 83-84, 90
AmortisationType(y, seq) ==
    IF y <= replenishment_period THEN "Replenishment"
    ELSE IF seq THEN "Sequential" ELSE "Pro-rata"

\* mutant of ProRataPrincipal: the whole structural amortisation of the
\* period paid to the tranche, not its pro-rata share
ProRataPrincipalOfNotional(te, rn) == RDiv(RMul(rn, amortisation_rate), Q)

\* line 93 (rn # 0)
ProRataPrincipal(te, rn) ==
    RMul(RDiv(te, rn), RDiv(RMul(rn, amortisation_rate), Q))

\* line 94
ProRataExposure(te, principal) == RSub(te, principal)

\* mutant of SequentialExposure: the first-loss deduction left out
SequentialExposureNoLoss(te, losses) == te

\* line 98
SequentialExposure(te, losses) == RSub(te, losses)

\* mutant of Amortise: a fixed share of the initial notional each period
AmortiseLinear(rn) ==
    RSub(rn, RDiv(RMul(notional_amount, amortisation_rate), Q))

\* lines 95, 99
Amortise(rn) == RMul(rn, RSub(One, RDiv(amortisation_rate, Q)))

\* lines 85, 101
QuarterlyCoupon(te) == RDiv(RMul(te, coupon_rate), Q)

\* line 108
Min(a, b) == IF a < b THEN a ELSE b

\* mutant of RiskFreeRate: the list indexed by year instead of year - 1
RiskFreeRateOffByOne(y) ==
    RDiv(risk_free_rates[Min(y, Len(risk_free_rates) - 1) + 1], Q)

\* line 108
RiskFreeRate(y) ==
    RDiv(risk_free_rates[Min(y - 1, Len(risk_free_rates) - 1) + 1], Q)

\* line 109
Compound(cc, cf, y) == RMul(RAdd(cc, cf), RAdd(One, RiskFreeRate(y)))

\* mutant of InitialSequentialMode: the latch carried over from the scenario
\* before
InitialSequentialModeCarried == sequential_mode

\* line 75
InitialSequentialMode == FALSE

\* mutant of InitialPnl: the accumulator carried over from the scenario before
InitialPnlCarried == IF i = 0 THEN RNeg(cln_price) ELSE pnl

\* lines 72-73
InitialPnl == RNeg(cln_price)

\* line 105
AddCashflow(p, cf) == RAdd(p, cf)

\* line 113
ScenarioName(k) == <<"Stress", k + 1>>

\* One iteration of the period loop (lines 79-110) on the loop's carried
\* state; defined when the Pro-rata division does not fault.
PeriodOutcome(y, stress, trig, rn, te, seq, p, cc) ==
    LET losses == AnnualLosses(rn, stress)
        seq1 == IF y <= replenishment_period THEN seq
                ELSE SequentialMode(y, trig, seq)
        type == AmortisationType(y, seq1)
        principal == IF type = "Pro-rata" THEN ProRataPrincipal(te, rn) ELSE Zero
        te1 == IF type = "Pro-rata" THEN ProRataExposure(te, principal)
               ELSE IF type = "Sequential" THEN SequentialExposure(te, losses)
               ELSE te
        rn1 == IF type = "Replenishment" THEN rn ELSE Amortise(rn)
        coupon == QuarterlyCoupon(te1)
        cashflow == IF type = "Replenishment" THEN coupon
                    ELSE RAdd(coupon, principal)
        te2 == RSub(te1, losses)
        p1 == AddCashflow(p, cashflow)
        cc1 == Compound(cc, cashflow, y)
    IN  [losses |-> losses, seq |-> seq1, type |-> type,
         principal |-> principal, rn |-> rn1, te |-> te2,
         cashflow |-> cashflow, pnl |-> p1, cc |-> cc1,
         dpnl |-> RSub(cc1, cln_price)]

\* line 93 divides by remaining_notional
DivisionFaults(y, trig, rn, seq) ==
    /\ y > replenishment_period
    /\ AmortisationType(y, SequentialMode(y, trig, seq)) = "Pro-rata"
    /\ rn = Zero

(***************************************************************************)
(* State machine                                                           *)
(***************************************************************************)
None == <<"undefined">>

Init ==
    /\ tranche_size \in TrancheSizes
    /\ notional_amount \in NotionalAmounts
    /\ coupon_rate \in CouponRates
    /\ annual_loss_rate \in AnnualLossRates
    /\ cln_price \in ClnPrices
    /\ amortisation_rate \in AmortisationRates
    /\ risk_free_rates \in RiskFreeRateLists
    /\ \E n \in 1..MaxScenarios :
          /\ stress_scenarios \in StressLists(n)
          /\ trigger_timings \in TriggerLists(n)
    \* lines 64-66
    /\ results = <<>>
    /\ pnl_over_time = [s \in {stress_scenarios[k] : k \in DOMAIN stress_scenarios}
                          |-> [k \in 1..total_quarters |-> Zero]]
    /\ pc = "scenario"
    /\ i = 0
    /\ year = 0
    /\ quarter = 0
    /\ fault = "none"
    /\ returned = None
    /\ trigger_time = None
    /\ remaining_notional = None
    /\ tranche_exposure = None
    /\ pnl = None
    /\ discounted_pnl = None
    /\ compounded_cashflows = None
    /\ sequential_mode = FALSE
    /\ annual_losses = None
    /\ principal_payment = None
    /\ quarterly_cashflow = None
    /\ amortisation_type = "undefined"
    /\ annual_cashflow = None
    /\ base_pnl_over_time = None

\* lines 68-75: the head of the scenario loop and the scenario's fresh state
StartScenario ==
    /\ pc = "scenario"
    /\ i < Len(stress_scenarios)
    /\ trigger_time' = trigger_timings[i + 1]
    /\ remaining_notional' = notional_amount
    /\ tranche_exposure' = tranche_size
    /\ pnl' = InitialPnl
    /\ discounted_pnl' = RNeg(cln_price)
    /\ compounded_cashflows' = Zero
    /\ sequential_mode' = InitialSequentialMode
    /\ year' = 1
    /\ quarter' = 1
    /\ pc' = "period"
    /\ UNCHANGED <<args, i, fault, returned, period_locals, results,
                   pnl_over_time, v1_locals>>

\* mutant of AfterPeriod: the scenario abandoned once the tranche is wiped out
AfterPeriodStopWhenWipedOut(y, q) ==
    IF tranche_exposure[1] < 0 \/ (q = quarters_per_year /\ y = maturity)
    THEN [pc |-> "scenario", i |-> i + 1, year |-> y, quarter |-> q]
    ELSE IF q < quarters_per_year
    THEN [pc |-> "period", i |-> i, year |-> y, quarter |-> q + 1]
    ELSE [pc |-> "period", i |-> i, year |-> y + 1, quarter |-> 1]

\* the position after the period (y, q): lines 77-78, 68
AfterPeriod(y, q) ==
    IF q < quarters_per_year THEN [pc |-> "period", i |-> i, year |-> y, quarter |-> q + 1]
    ELSE IF y < maturity THEN [pc |-> "period", i |-> i, year |-> y + 1, quarter |-> 1]
    ELSE [pc |-> "scenario", i |-> i + 1, year |-> y, quarter |-> q]

\* lines 112-125
Record(o) ==
    [Scenario |-> ScenarioName(i), Year |-> year, Quarter |-> quarter,
     TriggerTime |-> trigger_time, StressMultiplier |-> stress_scenarios[i + 1],
     Losses |-> o.losses, RemainingNotional |-> o.rn, TrancheExposure |-> o.te,
     QuarterlyCashflow |-> o.cashflow, AmortisationType |-> o.type,
     PnL |-> o.pnl, DiscountedPnL |-> o.dpnl]

\* lines 79-129: one period that completes
Period ==
    /\ pc = "period"
    /\ ~DivisionFaults(year, trigger_time, remaining_notional, sequential_mode)
    /\ \E o \in {PeriodOutcome(year, stress_scenarios[i + 1], trigger_time,
                               remaining_notional, tranche_exposure,
                               sequential_mode, pnl, compounded_cashflows)} :
       LET stress == stress_scenarios[i + 1]
           nxt == AfterPeriod(year, quarter)
       IN  /\ annual_losses' = o.losses
           /\ principal_payment' = o.principal
           /\ sequential_mode' = o.seq
           /\ amortisation_type' = o.type
           /\ tranche_exposure' = o.te
           /\ remaining_notional' = o.rn
           /\ quarterly_cashflow' = o.cashflow
           /\ pnl' = o.pnl
           /\ compounded_cashflows' = o.cc
           /\ discounted_pnl' = o.dpnl
           /\ results' = Append(results, Record(o))
           /\ pnl_over_time' =
                 IF trigger_time = base_trigger_time
                 THEN [pnl_over_time EXCEPT
                         ![stress][QuarterIndex(year, quarter) + 1] = o.pnl]
                 ELSE pnl_over_time
           /\ pc' = nxt.pc
           /\ i' = nxt.i
           /\ year' = nxt.year
           /\ quarter' = nxt.quarter
    /\ UNCHANGED <<args, fault, returned, trigger_time, v1_locals>>

\* lines 79-93: a Pro-rata period whose division by remaining_notional raises
PeriodFault ==
    /\ pc = "period"
    /\ DivisionFaults(year, trigger_time, remaining_notional, sequential_mode)
    /\ annual_losses' = AnnualLosses(remaining_notional, stress_scenarios[i + 1])
    /\ principal_payment' = Zero
    /\ sequential_mode' = SequentialMode(year, trigger_time, sequential_mode)
    /\ amortisation_type' = "Pro-rata"
    /\ fault' = "ZeroDivisionError"
    /\ pc' = "fault"
    /\ UNCHANGED <<args, i, year, quarter, returned, trigger_time,
                   remaining_notional, tranche_exposure, pnl, discounted_pnl,
                   compounded_cashflows, quarterly_cashflow, results,
                   pnl_over_time, v1_locals>>

\* lines 131-142: the loop is over; the table of all records is returned
Return ==
    /\ pc = "scenario"
    /\ i >= Len(stress_scenarios)
    /\ returned' = results
    /\ pc' = "done"
    /\ UNCHANGED <<args, i, year, quarter, fault, scenario_locals,
                   period_locals, results, pnl_over_time, v1_locals>>

Next == StartScenario \/ Period \/ PeriodFault \/ Return

Spec == Init /\ [][Next]_vars

\* the same program called with cln_price = 2^54
LargePriceInit ==
    /\ tranche_size \in TrancheSizes
    /\ notional_amount \in NotionalAmounts
    /\ coupon_rate \in CouponRates
    /\ annual_loss_rate \in AnnualLossRates
    /\ cln_price \in LargeClnPrices
    /\ amortisation_rate \in AmortisationRates
    /\ risk_free_rates \in RiskFreeRateLists
    /\ \E n \in 1..MaxScenarios :
          /\ stress_scenarios \in StressLists(n)
          /\ trigger_timings \in TriggerLists(n)
    /\ results = <<>>
    /\ pnl_over_time = [s \in {stress_scenarios[k] : k \in DOMAIN stress_scenarios}
                          |-> [k \in 1..total_quarters |-> Zero]]
    /\ pc = "scenario"
    /\ i = 0
    /\ year = 0
    /\ quarter = 0
    /\ fault = "none"
    /\ returned = None
    /\ trigger_time = None
    /\ remaining_notional = None
    /\ tranche_exposure = None
    /\ pnl = None
    /\ discounted_pnl = None
    /\ compounded_cashflows = None
    /\ sequential_mode = FALSE
    /\ annual_losses = None
    /\ principal_payment = None
    /\ quarterly_cashflow = None
    /\ amortisation_type = "undefined"
    /\ annual_cashflow = None
    /\ base_pnl_over_time = None

SpecLargePrice == LargePriceInit /\ [][Next]_vars

(***************************************************************************)
(* srt_stress_analysis of "SRT PnL Stress Analysis v1.py": the yearly      *)
(* predecessor.  It uses the same variables; quarter, principal_payment,   *)
(* quarterly_cashflow, compounded_cashflows and sequential_mode do not     *)
(* exist in v1 and keep their initial values.                              *)
(***************************************************************************)
\* v1 amortises once a year (lines 85, 88) and indexes risk_free_rates by
\* year without a bound (line 95): one rate per year of the maturity
V1AmortisationRates == {Zero, R(1, 2), One}
V1RiskFreeRateLists ==
    {[y \in 1..maturity |-> Zero],
     [y \in 1..maturity |-> IF y = 1 THEN One ELSE Zero]}

\* v1 line 76
V1AnnualLosses(rn, stress) == RMul(RMul(rn, annual_loss_rate), stress)

\* v1 lines 78-82: assigned only after the replenishment period
V1AmortisationType(y, trig, type) ==
    IF y > replenishment_period
    THEN IF y = trig THEN "Sequential" ELSE "Pro-rata"
    ELSE type

\* v1 lines 85, 88
V1Amortise(rn) == RMul(rn, RSub(One, amortisation_rate))

\* v1 line 95
RECURSIVE V1DiscountFactor(_)
V1DiscountFactor(y) ==
    IF y = 0 THEN One
    ELSE RMul(V1DiscountFactor(y - 1), RAdd(One, risk_free_rates[y]))

\* v1 lines 76-96: one iteration of the year loop
V1YearOutcome(y, stress, trig, rn, te, type, p, dp) ==
    LET losses == V1AnnualLosses(rn, stress)
        type1 == V1AmortisationType(y, trig, type)
        te1 == IF y > replenishment_period /\ type1 # "Pro-rata"
               THEN RSub(te, losses) ELSE te
        rn1 == IF y > replenishment_period THEN V1Amortise(rn) ELSE rn
        te2 == RSub(te1, losses)
        cashflow == RMul(te2, coupon_rate)
    IN  [losses |-> losses, type |-> type1, rn |-> rn1, te |-> te2,
         cashflow |-> cashflow, pnl |-> RAdd(p, cashflow),
         dpnl |-> RAdd(dp, RDiv(cashflow, V1DiscountFactor(y)))]

\* v1 lines 100-112
V1Record(o) ==
    [Scenario |-> ScenarioName(i), Year |-> year, TriggerTime |-> trigger_time,
     StressMultiplier |-> stress_scenarios[i + 1], Losses |-> o.losses,
     RemainingNotional |-> o.rn, TrancheExposure |-> o.te,
     AmortisationType |-> IF year > replenishment_period THEN o.type
                          ELSE "Replenishment",
     AnnualCashflow |-> o.cashflow, PnL |-> o.pnl, DiscountedPnL |-> o.dpnl]

V1Init ==
    /\ tranche_size \in TrancheSizes
    /\ notional_amount \in NotionalAmounts
    /\ coupon_rate \in CouponRates
    /\ annual_loss_rate \in AnnualLossRates
    /\ cln_price \in ClnPrices
    /\ amortisation_rate \in V1AmortisationRates
    /\ risk_free_rates \in V1RiskFreeRateLists
    /\ \E n \in 1..MaxScenarios :
          /\ stress_scenarios \in StressLists(n)
          /\ trigger_timings \in TriggerLists(n)
    \* v1 lines 60-64
    /\ results = <<>>
    /\ base_pnl_over_time = <<>>
    /\ pnl_over_time = None
    /\ pc = "scenario"
    /\ i = 0
    /\ year = 0
    /\ quarter = 0
    /\ fault = "none"
    /\ returned = None
    /\ trigger_time = None
    /\ remaining_notional = None
    /\ tranche_exposure = None
    /\ pnl = None
    /\ discounted_pnl = None
    /\ compounded_cashflows = None
    /\ sequential_mode = FALSE
    /\ annual_losses = None
    /\ principal_payment = None
    /\ quarterly_cashflow = None
    /\ amortisation_type = "undefined"
    /\ annual_cashflow = None

\* v1 lines 66-73
V1StartScenario ==
    /\ pc = "scenario"
    /\ i < Len(stress_scenarios)
    /\ trigger_time' = trigger_timings[i + 1]
    /\ remaining_notional' = notional_amount
    /\ tranche_exposure' = tranche_size
    /\ pnl' = RNeg(cln_price)
    /\ discounted_pnl' = RNeg(cln_price)
    /\ pnl_over_time' = <<>>
    /\ year' = 1
    /\ pc' = "year"
    /\ UNCHANGED <<args, i, quarter, fault, returned, compounded_cashflows,
                   sequential_mode, period_locals, results, v1_locals>>

\* v1 lines 75-116: one year; after the last year the scenario's trajectory
\* is kept for the plot when it is the base scenario
V1Year ==
    /\ pc = "year"
    /\ \E o \in {V1YearOutcome(year, stress_scenarios[i + 1], trigger_time,
                               remaining_notional, tranche_exposure,
                               amortisation_type, pnl, discounted_pnl)} :
          /\ annual_losses' = o.losses
          /\ amortisation_type' = o.type
          /\ remaining_notional' = o.rn
          /\ tranche_exposure' = o.te
          /\ annual_cashflow' = o.cashflow
          /\ pnl' = o.pnl
          /\ discounted_pnl' = o.dpnl
          /\ pnl_over_time' = Append(pnl_over_time, o.pnl)
          /\ results' = Append(results, V1Record(o))
          /\ IF year < maturity
             THEN /\ year' = year + 1
                  /\ UNCHANGED <<pc, i, base_pnl_over_time>>
             ELSE /\ pc' = "scenario"
                  /\ i' = i + 1
                  /\ base_pnl_over_time' =
                        IF i = 0 /\ trigger_time = base_trigger_time
                        THEN Append(pnl_over_time, o.pnl)
                        ELSE base_pnl_over_time
                  /\ UNCHANGED year
    /\ UNCHANGED <<args, quarter, fault, returned, trigger_time,
                   compounded_cashflows, sequential_mode, principal_payment,
                   quarterly_cashflow>>

\* v1 lines 118-129
V1Return ==
    /\ pc = "scenario"
    /\ i >= Len(stress_scenarios)
    /\ returned' = results
    /\ pc' = "done"
    /\ UNCHANGED <<args, i, year, quarter, fault, scenario_locals,
                   period_locals, results, pnl_over_time, v1_locals>>

V1Next == V1StartScenario \/ V1Year \/ V1Return

SpecV1 == V1Init /\ [][V1Next]_vars

(***************************************************************************)
(* Reading the result table                                                *)
(*                                                                         *)
(* results only grows, one record per completed period, and a record is    *)
(* never changed after it is appended.  A statement about every record (or *)
(* every pair of records) of a run is therefore checked on the newest      *)
(* record of every reachable state: each record is the newest one in the   *)
(* state that follows its period.                                          *)
(***************************************************************************)
HasRecord == Len(results) > 0
Last == results[Len(results)]
\* the newest record is not its scenario's first: the one before it belongs
\* to the same scenario
HasPrev == Len(results) > 1 /\ results[Len(results) - 1].Scenario = Last.Scenario
Prev == results[Len(results) - 1]
\* positions of the records of the newest record's scenario
ScenarioPositions == {k \in 1..Len(results) : results[k].Scenario = Last.Scenario}

(***************************************************************************)
(* C1: once a period of a scenario is recorded as Sequential, every later  *)
(* period of that scenario is recorded as Sequential too.                  *)
(***************************************************************************)
C1_SequentialIsSticky ==
    HasRecord =>
        \A k \in ScenarioPositions :
            results[k].AmortisationType = "Sequential"
                => Last.AmortisationType = "Sequential"

C1_Witness ==
    /\ HasRecord
    /\ Last.Year = maturity
    /\ Last.TriggerTime = 5
    /\ Last.AmortisationType = "Sequential"
    /\ \E k \in ScenarioPositions :
          results[k].Year = 5 /\ results[k].AmortisationType = "Sequential"

(***************************************************************************)
(* C2: with trigger_year in 4..8, the periods of years 4 .. trigger_year-1 *)
(* are Pro-rata and the periods from trigger_year quarter 1 to year 8      *)
(* quarter 4 are Sequential.                                               *)
(***************************************************************************)
C2_RegimeByTriggerYear ==
    (HasRecord /\ Last.TriggerTime \in (replenishment_period + 1)..maturity) =>
        /\ Last.Year \in (replenishment_period + 1)..(Last.TriggerTime - 1)
              => Last.AmortisationType = "Pro-rata"
        /\ Last.Year >= Last.TriggerTime
              => Last.AmortisationType = "Sequential"

C2_Witness ==
    /\ HasRecord
    /\ Last.StressMultiplier = R(5, 2)
    /\ Last.TriggerTime = 7
    /\ Last.Year = maturity
    /\ Last.Quarter = quarters_per_year
    /\ Last.AmortisationType = "Sequential"
    /\ \E k \in ScenarioPositions :
          results[k].Year = 6 /\ results[k].AmortisationType = "Pro-rata"
    /\ \E k \in ScenarioPositions :
          /\ results[k].Year = 7
          /\ results[k].Quarter = 1
          /\ results[k].AmortisationType = "Sequential"

(***************************************************************************)
(* C3: in every period of years 1..3 the regime is Replenishment, the      *)
(* principal payment is 0, the remaining notional is still the notional    *)
(* amount, and the period's losses are                                     *)
(* notional_amount * annual_loss_rate * stress_multiplier / 4.             *)
(***************************************************************************)
C3_ReplenishmentPeriod ==
    (HasRecord /\ Last.Year <= replenishment_period) =>
        /\ Last.AmortisationType = "Replenishment"
        /\ principal_payment = Zero
        /\ Last.RemainingNotional = notional_amount
        /\ remaining_notional = notional_amount
        /\ Last.Losses =
              RDiv(RMul(notional_amount,
                        RMul(annual_loss_rate, Last.StressMultiplier)),
                   R(4, 1))

C3_Witness ==
    /\ HasRecord
    /\ Last.Year = replenishment_period
    /\ Last.Quarter = quarters_per_year
    /\ Last.StressMultiplier = One
    /\ notional_amount = R(16, 1)
    /\ Last.Losses = R(1, 2)
    /\ Last.AmortisationType = "Replenishment"

(***************************************************************************)
(* C4: in every period the coupon (quarterly_cashflow - principal_payment) *)
(* is the period's recorded Tranche Exposure, which is the exposure after  *)
(* the period's loss deduction, times coupon_rate / 4.                     *)
(***************************************************************************)
C4_CouponOnRecordedExposure ==
    (HasRecord /\ pc # "fault") =>
        RSub(Last.QuarterlyCashflow, principal_payment) =
            RDiv(RMul(Last.TrancheExposure, coupon_rate), R(4, 1))

(***************************************************************************)
(* C5: from a period to the next of the same scenario, remaining_notional  *)
(* and tranche_exposure do not increase, whenever the period's losses and  *)
(* the amortisation rate are >= 0 and the remaining notional is >= 0.      *)
(***************************************************************************)
C5_NonIncreasing ==
    (/\ HasRecord
     /\ HasPrev
     /\ RLe(Zero, Last.Losses)
     /\ RLe(Zero, amortisation_rate)
     /\ RLe(Zero, Prev.RemainingNotional)
     /\ RLe(Zero, Last.RemainingNotional)) =>
        /\ RLe(Last.RemainingNotional, Prev.RemainingNotional)
        /\ RLe(Last.TrancheExposure, Prev.TrancheExposure)

(***************************************************************************)
(* C6: a Pro-rata period entered with remaining_notional = 0 completes     *)
(* with principal_payment = 0 and the run goes on; no division fault is    *)
(* raised.                                                                 *)
(***************************************************************************)
C6_ZeroNotionalProRata ==
    [][(/\ pc = "period"
        /\ year > replenishment_period
        /\ ~SequentialMode(year, trigger_time, sequential_mode)
        /\ remaining_notional = Zero)
       => (/\ principal_payment' = Zero
           /\ Len(results') = Len(results) + 1
           /\ fault' = "none")]_vars

(***************************************************************************)
(* C7: a run that completes returns exactly 32 * S records, and the record *)
(* at 0-based position i*32 + (y-1)*4 + (q-1) is that of scenario i, year  *)
(* y, quarter q, also when the tranche exposure has gone negative.         *)
(***************************************************************************)
C7_RecordCountAndOrder ==
    pc = "done" =>
        /\ Len(returned) = 32 * Len(stress_scenarios)
        /\ \A s \in 0..(Len(stress_scenarios) - 1) :
              \A y \in 1..8 :
                 \A q \in 1..4 :
                    LET r == returned[s * 32 + (y - 1) * 4 + (q - 1) + 1]
                    IN  /\ r.Scenario = <<"Stress", s + 1>>
                        /\ r.StressMultiplier = stress_scenarios[s + 1]
                        /\ r.TriggerTime = trigger_timings[s + 1]
                        /\ r.Year = y
                        /\ r.Quarter = q

C7_Witness ==
    /\ pc = "done"
    /\ Len(stress_scenarios) = 2
    /\ Len(returned) = 64
    /\ \E k \in 1..32 : returned[k].TrancheExposure[1] < 0

(***************************************************************************)
(* C8: the compounded balance starts at 0 in each scenario, each period    *)
(* balance' = (balance + quarterly_cashflow) * (1 + r/4) with r the rate   *)
(* of the period's year, the last rate of the list serving every later     *)
(* year, and the recorded Discounted PnL is balance' - cln_price.          *)
(***************************************************************************)
C8_ForwardCompounding ==
    /\ (pc = "period" /\ year = 1 /\ quarter = 1) => compounded_cashflows = Zero
    /\ HasRecord =>
        LET balance == IF HasPrev THEN RAdd(Prev.DiscountedPnL, cln_price)
                       ELSE Zero
            r == IF Last.Year <= Len(risk_free_rates)
                 THEN risk_free_rates[Last.Year]
                 ELSE risk_free_rates[Len(risk_free_rates)]
            grown == RMul(RAdd(balance, Last.QuarterlyCashflow),
                          RAdd(One, RDiv(r, R(4, 1))))
        IN  Last.DiscountedPnL = RSub(grown, cln_price)

C8_Witness ==
    /\ HasRecord
    /\ Len(risk_free_rates) = 2
    /\ risk_free_rates[2] # Zero
    /\ Last.Year = 5
    /\ Last.QuarterlyCashflow # Zero
    /\ Last.DiscountedPnL # Last.PnL

(***************************************************************************)
(* C9: cumulative PnL is -cln_price before a scenario's first period, and  *)
(* after period n the recorded PnL is -cln_price plus the quarterly        *)
(* cashflows of periods 1..n of that scenario.                             *)
(***************************************************************************)
\* the cashflows of the records at positions .. k that belong to the newest
\* record's scenario (a scenario's records are consecutive)
RECURSIVE CashflowSum(_)
CashflowSum(k) ==
    IF k < 1 \/ results[k].Scenario # Last.Scenario THEN Zero
    ELSE RAdd(CashflowSum(k - 1), results[k].QuarterlyCashflow)

C9_CumulativePnl ==
    /\ (pc = "period" /\ year = 1 /\ quarter = 1) => pnl = RNeg(cln_price)
    /\ HasRecord =>
          Last.PnL = RAdd(RNeg(cln_price), CashflowSum(Len(results)))

C9_Witness ==
    /\ HasRecord
    /\ Last.Scenario = <<"Stress", 2>>
    /\ Last.Year = 2
    /\ Last.QuarterlyCashflow # Zero
    /\ results[32].PnL # RNeg(cln_price)

(***************************************************************************)
(* C10: a scenario whose stress_multiplier is <= 0 or whose trigger_year   *)
(* is outside 1..maturity is rejected before any of its period records is  *)
(* computed or emitted.                                                    *)
(***************************************************************************)
C10_InvalidScenarioRejected ==
    HasRecord =>
        /\ RLt(Zero, Last.StressMultiplier)
        /\ Last.TriggerTime \in 1..maturity

(***************************************************************************)
(* C11: the records of a scenario, its positional identifier apart, are    *)
(* those of the scenario run alone from a fresh state: they depend on the  *)
(* deal parameters and the scenario's (stress_multiplier, trigger_year)    *)
(* only, not on its position in the list nor on the scenarios before it.   *)
(***************************************************************************)
StripScenario(r) ==
    [Year |-> r.Year, Quarter |-> r.Quarter, TriggerTime |-> r.TriggerTime,
     StressMultiplier |-> r.StressMultiplier, Losses |-> r.Losses,
     RemainingNotional |-> r.RemainingNotional,
     TrancheExposure |-> r.TrancheExposure,
     QuarterlyCashflow |-> r.QuarterlyCashflow,
     AmortisationType |-> r.AmortisationType, PnL |-> r.PnL,
     DiscountedPnL |-> r.DiscountedPnL]

\* the first n records (from 0-based period k on, in state st) of the scenario
\* (stress, trig) run on its own; a faulting period ends the sequence
RECURSIVE SoloRecords(_, _, _, _, _)
SoloRecords(stress, trig, st, k, n) ==
    LET y == (k \div 4) + 1
        q == (k % 4) + 1
    IN  IF k >= n THEN <<>>
        ELSE IF DivisionFaults(y, trig, st.rn, st.seq) THEN <<"fault">>
        ELSE CHOOSE rs \in
                {<<[Year |-> y, Quarter |-> q, TriggerTime |-> trig,
                    StressMultiplier |-> stress, Losses |-> o.losses,
                    RemainingNotional |-> o.rn, TrancheExposure |-> o.te,
                    QuarterlyCashflow |-> o.cashflow,
                    AmortisationType |-> o.type, PnL |-> o.pnl,
                    DiscountedPnL |-> o.dpnl]>>
                 \o SoloRecords(stress, trig,
                                [rn |-> o.rn, te |-> o.te, seq |-> o.seq,
                                 pnl |-> o.pnl, cc |-> o.cc], k + 1, n) :
                 o \in {PeriodOutcome(y, stress, trig, st.rn, st.te, st.seq,
                                      st.pnl, st.cc)}} : TRUE

\* the state a scenario run alone starts from
SoloStart ==
    [rn |-> notional_amount, te |-> tranche_size, seq |-> FALSE,
     pnl |-> RNeg(cln_price), cc |-> Zero]

\* the records of the newest record's scenario, without the identifier
LastScenarioRecords ==
    LET own == SelectSeq(results, LAMBDA r : r.Scenario = Last.Scenario)
    IN  [k \in 1..Len(own) |-> StripScenario(own[k])]

\* checked when a scenario has ended, by completing or by a fault
C11_ScenarioRunsInIsolation ==
    (HasRecord /\ pc \in {"scenario", "fault"}) =>
        LastScenarioRecords =
            SoloRecords(Last.StressMultiplier, Last.TriggerTime, SoloStart, 0,
                        Len(LastScenarioRecords))

C11_Witness ==
    /\ pc = "scenario"
    /\ i = 2
    /\ stress_scenarios[1] # stress_scenarios[2]
    /\ trigger_timings = <<5, 6>>
    /\ results[32].AmortisationType = "Sequential"
    /\ results[32].PnL # Last.PnL
    /\ results[52].AmortisationType = "Pro-rata"

(***************************************************************************)
(* C12: every series of the PnL-over-time mapping is the cumulative-PnL    *)
(* trajectory (32 values, by global quarter) of a scenario with that       *)
(* stress multiplier and trigger year 4; scenarios with another trigger    *)
(* year contribute no series.                                              *)
(***************************************************************************)
C12_SeriesAreTriggerFourTrajectories ==
    pc = "done" =>
        \A stress \in DOMAIN pnl_over_time :
            \E s \in 1..Len(stress_scenarios) :
                /\ stress_scenarios[s] = stress
                /\ trigger_timings[s] = 4
                /\ Len(pnl_over_time[stress]) = 32
                /\ \A k \in 1..32 :
                      pnl_over_time[stress][k] = returned[(s - 1) * 32 + k].PnL

(***************************************************************************)
(* C13: a fault raised while one scenario is simulated does not prevent    *)
(* the other scenarios from completing: the records of every other         *)
(* scenario of the list are still produced and returned.                   *)
(***************************************************************************)
\* the exception leaves srt_stress_analysis (no handler in lines 68-142): a
\* state with pc = "fault" is the end of the call
C13_OtherScenariosReturned ==
    pc = "fault" =>
        \A s \in 1..Len(stress_scenarios) :
            s # i + 1 =>
               /\ returned # None
               /\ \E k \in 1..Len(returned) :
                     returned[k].Scenario = <<"Stress", s>>

(***************************************************************************)
(* C14: in every Sequential period the principal payment is 0, the         *)
(* cashflow is the coupon alone, the tranche exposure falls by exactly     *)
(* twice the period's losses (computed on the notional before the update)  *)
(* and the remaining notional is multiplied by 1 - amortisation_rate / 4.  *)
(***************************************************************************)
\* a Sequential period is never a scenario's first: Prev is the period before
C14_SequentialPeriod ==
    (HasRecord /\ Last.AmortisationType = "Sequential") =>
        /\ HasPrev
        /\ principal_payment = Zero
        /\ Last.Losses =
              RDiv(RMul(Prev.RemainingNotional,
                        RMul(annual_loss_rate, Last.StressMultiplier)),
                   R(4, 1))
        /\ Last.QuarterlyCashflow =
              RDiv(RMul(RSub(Prev.TrancheExposure, Last.Losses), coupon_rate),
                   R(4, 1))
        /\ RSub(Prev.TrancheExposure, Last.TrancheExposure) =
              RMul(R(2, 1), Last.Losses)
        /\ Last.RemainingNotional =
              RMul(Prev.RemainingNotional,
                   RSub(One, RDiv(amortisation_rate, R(4, 1))))

C14_Witness ==
    /\ HasRecord
    /\ Last.AmortisationType = "Sequential"
    /\ Prev.AmortisationType = "Sequential"
    /\ Last.Losses # Zero
    /\ amortisation_rate = R(2, 1)
    /\ Last.Year = 7

(***************************************************************************)
(* C15: in every Pro-rata period with remaining_notional # 0 the principal *)
(* payment is (exposure / notional) * (notional * amortisation_rate / 4),  *)
(* that is exposure * amortisation_rate / 4, on the values before the      *)
(* update; the tranche exposure falls by exactly principal_payment plus    *)
(* the period's losses; the remaining notional is multiplied by            *)
(* 1 - amortisation_rate / 4.                                              *)
(***************************************************************************)
\* principal_payment is the newest record's unless a later period faulted
C15_ProRataPeriod ==
    (HasRecord /\ Last.AmortisationType = "Pro-rata" /\ pc # "fault") =>
        /\ HasPrev
        /\ Prev.RemainingNotional # Zero
        /\ principal_payment =
              RDiv(RMul(Prev.TrancheExposure, amortisation_rate), R(4, 1))
        /\ Last.QuarterlyCashflow =
              RAdd(RDiv(RMul(RSub(Prev.TrancheExposure, principal_payment),
                             coupon_rate), R(4, 1)),
                   principal_payment)
        /\ RSub(Prev.TrancheExposure, Last.TrancheExposure) =
              RAdd(principal_payment, Last.Losses)
        /\ Last.RemainingNotional =
              RMul(Prev.RemainingNotional,
                   RSub(One, RDiv(amortisation_rate, R(4, 1))))

C15_Witness ==
    /\ HasRecord
    /\ pc # "fault"
    /\ Last.AmortisationType = "Pro-rata"
    /\ Prev.AmortisationType = "Pro-rata"
    /\ amortisation_rate = R(2, 1)
    /\ principal_payment[1] > 0
    /\ Last.Losses[1] > 0

(***************************************************************************)
(* C16: with trigger_year = replenishment_period + 1 = 4 the regime goes   *)
(* from Replenishment straight to Sequential: the scenario has no Pro-rata *)
(* period, and year 4 quarter 1 is Sequential with principal_payment 0.    *)
(***************************************************************************)
C16_TriggerAtFirstAmortisingYear ==
    (HasRecord /\ Last.TriggerTime = 4) =>
        /\ \A k \in ScenarioPositions :
              results[k].AmortisationType # "Pro-rata"
        /\ pc # "fault"
        /\ (Last.Year = 4 /\ Last.Quarter = 1) =>
              /\ Last.AmortisationType = "Sequential"
              /\ principal_payment = Zero
              /\ Prev.AmortisationType = "Replenishment"

C16_Witness ==
    /\ HasRecord
    /\ Last.TriggerTime = 4
    /\ Last.Year = 4
    /\ Last.Quarter = 1
    /\ Last.AmortisationType = "Sequential"
    /\ Prev.Year = 3
    /\ Prev.AmortisationType = "Replenishment"

(***************************************************************************)
(* C18: after global period k the recorded remaining notional is           *)
(* notional_amount * (1 - amortisation_rate / 4) ^ max(0, k - 12), for     *)
(* every stress multiplier and trigger year.                               *)
(***************************************************************************)
RECURSIVE RPow(_, _)
RPow(x, n) == IF n = 0 THEN One ELSE RMul(x, RPow(x, n - 1))

C18_NotionalTrajectory ==
    HasRecord =>
        LET k == (Last.Year - 1) * 4 + Last.Quarter
            n == IF k > 12 THEN k - 12 ELSE 0
        IN  Last.RemainingNotional =
               RMul(notional_amount,
                    RPow(RSub(One, RDiv(amortisation_rate, R(4, 1))), n))

C18_Witness ==
    /\ HasRecord
    /\ Last.Year = 8
    /\ Last.Quarter = 4
    /\ Last.RemainingNotional = R(1, 65536)
    /\ Last.Losses # Zero
    /\ \E k \in ScenarioPositions : results[k].AmortisationType = "Pro-rata"
    /\ Last.AmortisationType = "Sequential"

(***************************************************************************)
(* C19: with trigger_year <= replenishment_period or trigger_year >        *)
(* maturity the sequential latch is never set: no period of the scenario   *)
(* is Sequential and every period of years 4..8 is Pro-rata.               *)
(***************************************************************************)
C19_TriggerNeverObserved ==
    (/\ HasRecord
     /\ (Last.TriggerTime <= replenishment_period \/ Last.TriggerTime > maturity)) =>
        /\ Last.AmortisationType # "Sequential"
        /\ Last.Year \in 4..8 => Last.AmortisationType = "Pro-rata"
        /\ (pc = "period" /\ i + 1 = Last.Scenario[2]) => ~sequential_mode

C19_Witness ==
    /\ HasRecord
    /\ Last.TriggerTime = 2
    /\ Last.Year = 8
    /\ Last.Quarter = 4
    /\ Last.AmortisationType = "Pro-rata"

(***************************************************************************)
(* C20: when every risk-free rate is 0 the recorded Discounted PnL equals  *)
(* the recorded PnL in every period; when every rate is >= 0 and every     *)
(* quarterly cashflow of the scenario so far is >= 0, Discounted PnL >=    *)
(* PnL.  Checked under SpecLargePrice, where the two columns are floats    *)
(* about 2^54 and the additions of lines 105 and 110 round.                *)
(***************************************************************************)
AllRatesZero == \A k \in DOMAIN risk_free_rates : risk_free_rates[k] = Zero
NoRateNegative == \A k \in DOMAIN risk_free_rates : RLe(Zero, risk_free_rates[k])

C20_DiscountedAgainstCumulative ==
    HasRecord =>
        /\ AllRatesZero => Last.DiscountedPnL = Last.PnL
        /\ (/\ NoRateNegative
            /\ \A k \in ScenarioPositions :
                  RLe(Zero, results[k].QuarterlyCashflow))
              => RLe(Last.PnL, Last.DiscountedPnL)

(***************************************************************************)
(* C17 (v1, under SpecV1): once a scenario has a year recorded as          *)
(* Sequential, every later year of it is recorded as Sequential, for       *)
(* trigger_time in 4..7.                                                   *)
(***************************************************************************)
C17_V1SequentialIsSticky ==
    (HasRecord /\ Last.TriggerTime \in 4..7) =>
        \A k \in ScenarioPositions :
            results[k].AmortisationType = "Sequential"
                => Last.AmortisationType = "Sequential"

====
